---- MODULE Spec2Model ----
(***************************************************************************)
(* Model of the notebook 2019-08-24-01_profile-example.ipynb: the          *)
(* multi-exponential residual evaluators (general_multiexponential and     *)
(* hardcoded_multiexponential), the lmfit parameter sets the notebook      *)
(* builds, and the minimizer runs that update the parameters and call the  *)
(* evaluators.                                                             *)
(*                                                                         *)
(* Numbers.  The notebook computes with Python floats (binary floating     *)
(* point, round to nearest, ties to even).  The model keeps that           *)
(* arithmetic but with a reduced precision of Precision significant bits   *)
(* and a smallest quantum of 2^-FracBits: a float is the integer           *)
(* n = value * 2^FracBits, and every operation rounds its exact result.    *)
(***************************************************************************)
EXTENDS Integers, Sequences, FiniteSets, TLC

\* Significant bits of a float (53 in the notebook's float64).
Precision == 5
\* Binary digits after the point of the smallest representable quantum.
FracBits == 10
\* Number of samples in the vector x.
MaxN == 2
\* Largest number of parameter updates the minimizers perform in one run
\* of the notebook.
MaxSteps == 2

RECURSIVE Pow2(_)
Pow2(n) == IF n <= 0 THEN 1 ELSE 2 * Pow2(n - 1)

One == Pow2(FracBits)

Abs(n) == IF n < 0 THEN -n ELSE n

Max(a, b) == IF a >= b THEN a ELSE b

Min(a, b) == IF a <= b THEN a ELSE b

\* h with 2^h <= num/den < 2^(h+1), for num > 0 and den > 0.
RECURSIVE FloorLog2(_, _)
FloorLog2(num, den) ==
  IF num >= den
    THEN IF num < 2 * den THEN 0 ELSE 1 + FloorLog2(num, 2 * den)
    ELSE FloorLog2(2 * num, den) - 1

\* k + r/d to the nearest integer, ties to even, times 2^e (0 <= r < d).
Nearest(k, r, d, e) ==
  (IF 2 * r > d \/ (2 * r = d /\ k % 2 = 1) THEN k + 1 ELSE k) * Pow2(e)

\* n / (d * 2^qe) to the nearest integer, as a multiple of the quantum
\* 2^qe in units of 2^-FracBits; sh is 2^|qe|.
Quantize(n, d, qe, sh) ==
  IF qe >= 0 THEN Nearest(n \div (d * sh), n % (d * sh), d * sh, qe + FracBits)
  ELSE IF d % sh = 0
    THEN Nearest(n \div (d \div sh), n % (d \div sh), d \div sh, qe + FracBits)
  ELSE Nearest((n * sh) \div d, (n * sh) % d, d, qe + FracBits)

\* The quantum of a value with the binary exponent h.
Quantum(h) == Max(h - Precision + 1, -FracBits)

RoundExp(num, den, qe) == Quantize(num, den, qe, Pow2(Abs(qe)))

\* The float nearest to num/den (num >= 0, den > 0), ties to even.
RoundPos(num, den) ==
  IF num = 0 THEN 0 ELSE RoundExp(num, den, Quantum(FloorLog2(num, den)))

\* The float nearest to num/den for any sign of num (den > 0).
Round(num, den) == (IF num < 0 THEN -1 ELSE 1) * RoundPos(Abs(num), den)

\* A numeric literal n/d of the source as a float.
FloatOf(n, d) == Round(n, d)

FAdd(a, b) == Round(a + b, One)

FSub(a, b) == Round(a - b, One)

FMul(a, b) == Round(a * b, One * One)

\* a / b for b # 0.
FDiv(a, b) == Round((IF b < 0 THEN -1 ELSE 1) * a, Abs(b))

\* Fixed-point scale of the exponential's working precision.
ExpScale == Pow2(15)

\* ExpPow2[k + 15] = e^(-2^k) * 2^15 to the nearest integer, k in -14..3.
ExpPow2 ==
  << 32766, 32764, 32760, 32752, 32736, 32704, 32640, 32513, 32260, 31760,
     30783, 28918, 25520, 19875, 12055, 4435, 600, 11 >>

\* e^(-m / 2^FracBits) * 2^15 for an integer m >= 0: the product of the
\* factors e^(-2^k) over the binary digits of m, digit j of m (counted from
\* the lowest) having the weight 2^(j - FracBits).
RECURSIVE ExpBits(_, _, _)
ExpBits(m, j, acc) ==
  IF m = 0 THEN acc
  ELSE
    LET k   == j - FracBits
        fac == IF k > 3 THEN 0
               ELSE IF k < -14 THEN ExpScale
               ELSE ExpPow2[k + 15]
        nxt == IF m % 2 = 1 THEN (acc * fac + (ExpScale \div 2)) \div ExpScale
               ELSE acc
    IN  ExpBits(m \div 2, j + 1, nxt)

\* np.exp(z) as a float.
Exp(z) ==
  IF z <= 0 THEN Round(ExpBits(-z, 0, ExpScale), ExpScale)
  ELSE LET d == ExpBits(z, 0, ExpScale)
       IN  IF d = 0 THEN 0 ELSE Round(ExpScale, d)

MinusOne == FloatOf(-1, 1)

Zero == FloatOf(0, 1)


(***************************************************************************)
(* Parameter sets.  A set is the sequence of its parameters in the order   *)
(* they were added; a parameter holds a stored value or an expression.     *)
(***************************************************************************)
\* The parameter name f'{k}_{i}_{j}'.
Name(k, i, j) == [k |-> k, i |-> i, j |-> j]

\* Expressions as asteval parses them.
NoExpr == [op |-> "none"]

Num(n) == [op |-> "num", v |-> n]

Ref(n) == [op |-> "name", n |-> n]

Sub(l, r) == [op |-> "sub", l |-> l, r |-> r]

\* Parameters.add(name, value=value, min=min, max=max)
add(ps, name, value, min, max) ==
  Append(ps, [name |-> name, val |-> value, expr |-> NoExpr,
              bounded |-> TRUE, min |-> min, max |-> max])

\* Parameters.add(name, value=value)
add_free(ps, name, value) ==
  Append(ps, [name |-> name, val |-> value, expr |-> NoExpr,
              bounded |-> FALSE, min |-> 0, max |-> 0])

\* Parameters.add(name, expr=expr)
add_expr(ps, name, expr) ==
  Append(ps, [name |-> name, val |-> 0, expr |-> expr,
              bounded |-> FALSE, min |-> 0, max |-> 0])

\* The three decay constants of group i, as every set declares them.
add_Ts(ps, i) ==
  add(add(add(ps,
    Name("T", i, 1), FloatOf(1, 1), FloatOf(1, 2), FloatOf(2, 1)),
    Name("T", i, 2), FloatOf(10, 1), FloatOf(5, 1), FloatOf(20, 1)),
    Name("T", i, 3), FloatOf(100, 1), FloatOf(50, 1), FloatOf(200, 1))

\* The two free amplitudes of group i.
add_As(ps, i) ==
  add(add(ps,
    Name("A", i, 1), FloatOf(3, 10), FloatOf(0, 1), FloatOf(1, 1)),
    Name("A", i, 2), FloatOf(3, 10), FloatOf(0, 1), FloatOf(1, 1))

\* The expression '1 - A_i_1 - A_i_2'.
ConstraintExpr(i) ==
  Sub(Sub(Num(1), Ref(Name("A", i, 1))), Ref(Name("A", i, 2)))

\* params_1 with the third amplitude stored as a value, as params_2 has it.
params_1_group_stored(ps, i) ==
  add_Ts(add(add_As(ps, i),
    Name("A", i, 3), FloatOf(4, 10), FloatOf(0, 1), FloatOf(1, 1)), i)

\* params_1 with the expression parameter added before its siblings.
params_1_group_exprfirst(ps, i) ==
  add_Ts(add_As(add_expr(ps, Name("A", i, 3), ConstraintExpr(i)), i), i)

params_1_group(ps, i) ==
  add_Ts(add_expr(add_As(ps, i), Name("A", i, 3), ConstraintExpr(i)), i)

params_2_group(ps, i) ==
  add_Ts(add(add_As(ps, i),
    Name("A", i, 3), FloatOf(4, 10), FloatOf(0, 1), FloatOf(1, 1)), i)

params_3_group(ps, i) == add_Ts(add_As(ps, i), i)

params_1 == params_1_group(params_1_group(params_1_group(<< >>, 1), 2), 3)

params_2 == params_2_group(params_2_group(params_2_group(<< >>, 1), 2), 3)

params_3 == params_3_group(params_3_group(params_3_group(<< >>, 1), 2), 3)

fast_params == add_free(<< >>, Name("fast", 0, 0), FloatOf(2, 1))

slow_params == add_expr(<< >>, Name("slow", 0, 0), Num(2))

both_params ==
  add_free(add_expr(<< >>, Name("slow", 0, 0), Num(2)),
           Name("fast", 0, 0), FloatOf(2, 1))

\* The names of a set, and the parameter of a name.
Names(ps) == {ps[p].name : p \in 1..Len(ps)}

Has(ps, n) == \E p \in 1..Len(ps) : ps[p].name = n

Param(ps, n) == ps[CHOOSE p \in 1..Len(ps) : ps[p].name = n]

\* The names an expression references.
RECURSIVE Refs(_)
Refs(e) ==
  IF e.op = "name" THEN {e.n}
  ELSE IF e.op = "sub" THEN Refs(e.l) \cup Refs(e.r)
  ELSE {}

\* params[n].value: the stored value of a plain parameter; an expression
\* parameter evaluates its expression against the current values.
RECURSIVE getval(_, _)
RECURSIVE Eval(_, _)
getval(ps, n) ==
  IF Param(ps, n).expr.op = "none" THEN Param(ps, n).val
  ELSE Eval(ps, Param(ps, n).expr)

Eval(ps, e) ==
  IF e.op = "num" THEN FloatOf(e.v, 1)
  ELSE IF e.op = "name" THEN getval(ps, e.n)
  ELSE FSub(Eval(ps, e.l), Eval(ps, e.r))

\* One read params[n].value as the evaluators perform it: the name, the
\* path taken and the value returned (a missing name raises KeyError).
Read(ps, n) ==
  IF ~Has(ps, n) THEN [name |-> n, kind |-> "missing", val |-> 0]
  ELSE [name |-> n,
        kind |-> IF Param(ps, n).expr.op = "none" THEN "plain" ELSE "expr",
        val  |-> getval(ps, n)]

(***************************************************************************)
(* The model functions.  A vector is a sequence of floats.                 *)
(***************************************************************************)
\* np.exp(-1 * x / T) without the amplitude.
compute_exponential_noamp(x, A, T) ==
  [k \in 1..Len(x) |-> Exp(FDiv(FMul(MinusOne, x[k]), T))]

\* A * np.exp(-1 * x / T), elementwise over x.
compute_exponential(x, A, T) ==
  [k \in 1..Len(x) |-> FMul(A, Exp(FDiv(FMul(MinusOne, x[k]), T)))]

\* The values compute_exponential(x, A, T) of the pairs of zip(As, Ts).
ZipTerms(x, As, Ts) ==
  [j \in 1..Min(Len(As), Len(Ts)) |->
     [A |-> As[j], T |-> Ts[j], v |-> compute_exponential(x, As[j], Ts[j])]]

\* for A, T in zip(As, Ts): y += compute_exponential(x, A, T)
RECURSIVE ZipLoop(_, _, _)
ZipLoop(terms, j, y) ==
  IF j > Len(terms) THEN y
  ELSE ZipLoop(terms, j + 1, [k \in 1..Len(y) |-> FAdd(y[k], terms[j].v[k])])

\* The loop from the array y0, with the array x after it and the terms.
Accumulate(x, y0, terms) ==
  [y |-> ZipLoop(terms, 1, y0), x |-> x, terms |-> terms]

\* y = x instead of y = x * 0: y is the array x itself, and y += writes it.
compute_multiexponentials_alias(x, As, Ts) ==
  [y     |-> ZipLoop(ZipTerms(x, As, Ts), 1, x),
   x     |-> ZipLoop(ZipTerms(x, As, Ts), 1, x),
   terms |-> ZipTerms(x, As, Ts)]

\* The returned y, the array x after the call, and the terms computed.
compute_multiexponentials(x, As, Ts) ==
  CHOOSE r \in {Accumulate(x, [k \in 1..Len(x) |-> FMul(x[k], Zero)], terms)
                  : terms \in {ZipTerms(x, As, Ts)}} : TRUE

\* for j in range(1, 4) of general_multiexponential.
RECURSIVE GeneralInner(_, _, _, _)
GeneralInner(params, i, j, st) ==
  IF j > 3 THEN st
  ELSE
    LET A == Read(params, Name("A", i, j))
        T == Read(params, Name("T", i, j))
    IN  GeneralInner(params, i, j + 1,
          [As    |-> Append(st.As, A.val),
           Ts    |-> Append(st.Ts, T.val),
           trace |-> st.trace \o << A, T >>])

\* 1 - (As[0] + As[1])
HardcodedA_grouped(As) == FSub(FloatOf(1, 1), FAdd(As[1], As[2]))

\* 1 - As[0] + As[1]
HardcodedA_plus(As) == FAdd(FSub(FloatOf(1, 1), As[1]), As[2])

\* The third amplitude as hardcoded_multiexponential computes it.
HardcodedA(As) == FSub(FSub(FloatOf(1, 1), As[1]), As[2])

\* hardcoded_multiexponential reading the third amplitude like the others.
RECURSIVE HardcodedInner_reads3(_, _, _, _)
HardcodedInner_reads3(params, i, j, st) ==
  IF j > 3 THEN st
  ELSE
    LET A == Read(params, Name("A", i, j))
        T == Read(params, Name("T", i, j))
    IN  HardcodedInner_reads3(params, i, j + 1,
          [As    |-> Append(st.As, A.val),
           Ts    |-> Append(st.Ts, T.val),
           trace |-> st.trace \o << A, T >>])

\* for j in range(1, 4) of hardcoded_multiexponential.
RECURSIVE HardcodedInner(_, _, _, _)
HardcodedInner(params, i, j, st) ==
  IF j > 3 THEN st
  ELSE
    LET A == IF j = 3
               THEN [name |-> Name("A", i, j), kind |-> "hardcoded",
                     val |-> HardcodedA(st.As)]
               ELSE Read(params, Name("A", i, j))
        T == Read(params, Name("T", i, j))
    IN  HardcodedInner(params, i, j + 1,
          [As    |-> Append(st.As, A.val),
           Ts    |-> Append(st.Ts, T.val),
           trace |-> st.trace \o << A, T >>])

Inner(fn, params, i) ==
  LET st0 == [As |-> << >>, Ts |-> << >>, trace |-> << >>]
  IN  IF fn = "general" THEN GeneralInner(params, i, 1, st0)
      ELSE HardcodedInner(params, i, 1, st0)

\* for i in range(1, 4): y = []; ...; y.append(yi)
RECURSIVE Outer(_, _, _, _)
Outer(fn, params, i, st) ==
  IF i > 3 THEN st
  ELSE
    LET in == Inner(fn, params, i)
        cm == compute_multiexponentials(st.x, in.As, in.Ts)
    IN  Outer(fn, params, i + 1,
          [y      |-> Append(<< >>, cm.y),
           x      |-> cm.x,
           trace  |-> st.trace \o in.trace,
           groups |-> Append(st.groups,
                        [i |-> i, As |-> in.As, Ts |-> in.Ts,
                         terms |-> cm.terms])])

\* np.array(y).flatten()
RECURSIVE Flatten(_)
Flatten(y) == IF y = << >> THEN << >> ELSE Head(y) \o Flatten(Tail(y))

\* The position of the read that raises KeyError.
FirstMissing(trace) ==
  CHOOSE t \in 1..Len(trace) :
    /\ trace[t].kind = "missing"
    /\ \A u \in 1..(t - 1) : trace[u].kind # "missing"

\* The state at the return of an evaluator, st being the state after the
\* loop over the groups: the returned vector, the arguments as the call
\* leaves them, and what the call read and computed.
Return(fn, params, st, data, sigma) ==
  LET flat == Flatten(st.y)
      bad  == \E t \in 1..Len(st.trace) : st.trace[t].kind = "missing"
  IN  [fn     |-> fn,
       raised |-> bad,
       ret    |-> IF bad THEN << >>
                  ELSE [k \in 1..Len(flat) |->
                          FDiv(FSub(flat[k], data), sigma)],
       params |-> params,
       x      |-> st.x,
       data   |-> data,
       sigma  |-> sigma,
       trace  |-> IF bad THEN SubSeq(st.trace, 1, FirstMissing(st.trace))
                  ELSE st.trace,
       groups |-> st.groups]

\* The body of both evaluators, from the first loop to the return.
Evaluate(fn, params, x, data, sigma) ==
  CHOOSE r \in {Return(fn, params, st, data, sigma) :
                  st \in {Outer(fn, params, 1,
                            [y |-> << >>, x |-> x, trace |-> << >>,
                             groups |-> << >>])}} : TRUE

general_multiexponential(params, x, data, sigma) ==
  Evaluate("general", params, x, data, sigma)

hardcoded_multiexponential(params, x, data, sigma) ==
  Evaluate("hardcoded", params, x, data, sigma)


(***************************************************************************)
(* The notebook.  Its cells run in order; a minimizer run is a sequence of *)
(* steps, each updating one varying parameter and then calling the         *)
(* residual function with the minimizer's fcn_args.                        *)
(***************************************************************************)
VARIABLES
  pc,        \* the cell the notebook is at
  psets,     \* the parameter sets, by the name of their notebook variable
  x,         \* the sample vector of cell 4
  data,      \* the data vector of cell 4 (<< >> before it is computed)
  res,       \* per fitted set, the last evaluator call on its current values
  pending,   \* the running minimizer has values it has not evaluated yet
  steps,     \* parameter updates performed so far
  timed,     \* the values the %timeit cells read
  op         \* the operation performed last

vars == << pc, psets, x, data, res, pending, steps, timed, op >>

Fitted == {"params_1", "params_2", "params_3"}

SetNames == Fitted \cup {"fast_params", "slow_params", "both_params"}

NoRes == [fn |-> "none"]

\* error = 0.01
error == FloatOf(1, 100)

\* np.logspace(-3, 3, 99), by two of its values: the first one and 1.
LogGrid == {FloatOf(1, 1000), FloatOf(1, 1)}

\* The strictly increasing vectors of n values of LogGrid (of all its
\* values, when it has fewer).
Increasing(n) ==
  {s \in [1..Min(n, Cardinality(LogGrid)) -> LogGrid] :
     \A k \in 1..(Len(s) - 1) : s[k] < s[k + 1]}

\* np.random.randn(len(x)) after np.random.seed(42).
randn ==
  << FloatOf(4967, 10000), FloatOf(-1383, 10000), FloatOf(6477, 10000),
     FloatOf(15230, 10000), FloatOf(-2342, 10000), FloatOf(-2341, 10000) >>

\* The values a minimizer step gives a parameter.
StepGrid(n) ==
  IF n.k = "A" THEN {FloatOf(3, 10), FloatOf(4, 10)}
  ELSE IF n.j = 1 THEN {FloatOf(1, 1), FloatOf(2, 1)}
  ELSE IF n.j = 2 THEN {FloatOf(10, 1)}
  ELSE {FloatOf(100, 1)}

\* What the state keeps of an evaluator call.
Kept(r) ==
  [fn |-> r.fn, raised |-> r.raised, ret |-> r.ret, x |-> r.x,
   data |-> r.data, sigma |-> r.sigma, trace |-> r.trace,
   groups |-> r.groups]

\* The residual function of each minimizer (cells 4, 6 and 8).
userfcn(s, params, xx, dd, ss) ==
  IF s = "params_3" THEN hardcoded_multiexponential(params, xx, dd, ss)
  ELSE general_multiexponential(params, xx, dd, ss)

Init ==
  /\ pc = "params_1"
  /\ psets = [s \in SetNames |-> << >>]
  /\ x \in {<< Zero >> \o s : s \in Increasing(MaxN - 1)}
  /\ data = << >>
  /\ res = [s \in Fitted |-> NoRes]
  /\ pending = FALSE
  /\ steps = 0
  /\ timed = << >>
  /\ op = "init"

\* The value of a notebook variable holding a parameter set.
Built(s) ==
  IF s = "params_1" THEN params_1
  ELSE IF s = "params_2" THEN params_2
  ELSE IF s = "params_3" THEN params_3
  ELSE IF s = "fast_params" THEN fast_params
  ELSE IF s = "slow_params" THEN slow_params
  ELSE both_params

\* params = lmfit.Parameters(); params.add(...) ...: the first statements
\* of cells 4, 6 and 8.
Build(s) ==
  /\ pc = s
  /\ psets' = [psets EXCEPT ![s] = Built(s)]
  /\ pc' = IF s = "params_1" THEN "data" ELSE "fit_" \o s
  /\ pending' = (s # "params_1")
  /\ op' = "build"
  /\ UNCHANGED << x, data, res, steps, timed >>

\* The rest of cell 4:
\* data = general_multiexponential(params_1, x) + error * randn(len(x));
\* minimizer_1 = lmfit.Minimizer(general_multiexponential, params_1, ...)
DataCall ==
  /\ pc = "data"
  /\ \E r \in {general_multiexponential(psets["params_1"], x, Zero, One)} :
         /\ res' = [res EXCEPT !["params_1"] = Kept(r)]
         /\ psets' = [psets EXCEPT !["params_1"] = r.params]
         /\ x' = r.x
         /\ data' = [k \in 1..Len(r.ret) |->
                       FAdd(r.ret[k], FMul(error, randn[k]))]
  /\ pc' = "fit_params_1"
  /\ pending' = TRUE
  /\ op' = "call"
  /\ UNCHANGED << steps, timed >>

\* The minimizer gives one varying parameter a new value within its bounds.
Update(s, p, v) ==
  /\ pc = "fit_" \o s
  /\ ~pending
  /\ steps < MaxSteps
  /\ psets[s][p].expr.op = "none"
  /\ v \in StepGrid(psets[s][p].name)
  /\ v # psets[s][p].val
  /\ psets[s][p].bounded => (psets[s][p].min <= v /\ v <= psets[s][p].max)
  /\ psets' = [psets EXCEPT ![s][p].val = v]
  /\ res' = [res EXCEPT ![s] = NoRes]
  /\ pending' = TRUE
  /\ steps' = steps + 1
  /\ op' = "update"
  /\ UNCHANGED << pc, x, data, timed >>

\* The minimizer calls userfcn(params, *fcn_args) with fcn_args =
\* (data, error): the evaluator's x is the notebook's data vector, its data
\* is error, and its sigma keeps the default 1.
Call(s) ==
  /\ pc = "fit_" \o s
  /\ pending
  /\ \E r \in {userfcn(s, psets[s], data, error, One)} :
         /\ res' = [res EXCEPT ![s] = Kept(r)]
         /\ psets' = [psets EXCEPT ![s] = r.params]
         /\ data' = r.x
  /\ pending' = FALSE
  /\ op' = "call"
  /\ UNCHANGED << pc, x, steps, timed >>

\* The cell after a minimizer run.
AfterFit(s) ==
  IF s = "params_1" THEN "params_2"
  ELSE IF s = "params_2" THEN "params_3"
  ELSE "fast_params"

\* minimize(method='least_squares') returns.
Finish(s) ==
  /\ pc = "fit_" \o s
  /\ ~pending
  /\ pc' = AfterFit(s)
  /\ op' = "finish"
  /\ UNCHANGED << psets, x, data, res, pending, steps, timed >>

\* The cell after a %timeit cell.
AfterTimeit(s) ==
  IF s = "fast_params" THEN "slow_params"
  ELSE IF s = "slow_params" THEN "both_params"
  ELSE "done"

\* Cells 11 to 13: the set is built, and %timeit params[name].value reads
\* every parameter of it.
Timeit(s) ==
  /\ pc = s
  /\ psets' = [psets EXCEPT ![s] = Built(s)]
  /\ timed' = [p \in 1..Len(Built(s)) |-> Read(Built(s), Built(s)[p].name)]
  /\ pc' = AfterTimeit(s)
  /\ op' = "timeit"
  /\ UNCHANGED << x, data, res, pending, steps >>

Next ==
  \/ \E s \in Fitted : Build(s)
  \/ DataCall
  \/ \E s \in Fitted : \E p \in 1..Len(psets[s]) :
       \E v \in StepGrid(psets[s][p].name) : Update(s, p, v)
  \/ \E s \in Fitted : Call(s)
  \/ \E s \in Fitted : Finish(s)
  \/ \E s \in SetNames \ Fitted : Timeit(s)

Spec == Init /\ [][Next]_vars


(***************************************************************************)
(* Properties.                                                             *)
(***************************************************************************)
Called(s) == res[s].fn # "none"

\* The two sets hold the same values for every parameter of params_3.
SameValues(ps, qs) ==
  \A n \in Names(params_3) : getval(ps, n) = getval(qs, n)

SameArgs(r, q) == r.x = q.x /\ r.data = q.data /\ r.sigma = q.sigma

EquivalenceCase ==
  /\ Called("params_1")
  /\ Called("params_3")
  /\ SameValues(psets["params_1"], psets["params_3"])
  /\ SameArgs(res["params_1"], res["params_3"])

\* C1: when params_1 (expression policy) and params_3 (hard-coded policy)
\* hold the same values, general_multiexponential on params_1 and
\* hardcoded_multiexponential on params_3, called with the same x, data and
\* sigma, return the same residual vector.
C1_Equivalence ==
  EquivalenceCase => res["params_1"].ret = res["params_3"].ret

\* Both evaluators have returned a non-empty vector for the same values,
\* which are not the values the sets were built with.
C1_Witness ==
  /\ EquivalenceCase
  /\ psets["params_3"] # params_3
  /\ Len(res["params_3"].ret) > 0
  /\ ~res["params_1"].raised

\* C2: the vector an evaluator returns has 3 * N entries, N the length of x.
C2_Length ==
  \A s \in Fitted :
    (Called(s) /\ ~res[s].raised) => Len(res[s].ret) = 3 * Len(res[s].x)

InBounds(a) == Zero <= a /\ a <= One

\* The groups of the calls on params_1 and params_3 whose first two
\* amplitudes are within [0, 1].
PolicyGroups ==
  {g \in UNION {{res[s].groups[i] : i \in 1..Len(res[s].groups)}
                : s \in {t \in {"params_1", "params_3"} : Called(t)}} :
     InBounds(g.As[1]) /\ InBounds(g.As[2])}

\* C3 as stated: the three amplitudes passed to compute_multiexponentials
\* sum to exactly 1, be the sum taken exactly or in floating point.
C3_ExactlyOne ==
  \A g \in PolicyGroups :
    \/ g.As[1] + g.As[2] + g.As[3] = One
    \/ FAdd(FAdd(g.As[1], g.As[2]), g.As[3]) = One

\* C3 amended: the third amplitude passed is the float 1 - A_i_1 - A_i_2,
\* evaluated left to right, and the three amplitudes sum to 1 up to the
\* rounding of the two subtractions: |A1 + A2 + A3 - 1| <= 2^(1 - Precision).
C3_OneUpToRounding ==
  \A g \in PolicyGroups :
    /\ g.As[3] = FSub(FSub(One, g.As[1]), g.As[2])
    /\ Abs(g.As[1] + g.As[2] + g.As[3] - One) * Pow2(Precision) <= 2 * One

\* A group was evaluated with two different amplitudes within bounds, under
\* each policy.
C3_Witness ==
  /\ \E g \in PolicyGroups : g.As[1] # g.As[2]
  /\ Called("params_1") /\ Called("params_3")
  /\ \E i \in 1..3 : res["params_3"].groups[i].As[1]
                       # res["params_3"].groups[i].As[2]
  /\ \E i \in 1..3 : res["params_1"].groups[i].As[1]
                       # res["params_1"].groups[i].As[2]

\* The reads of a third amplitude in a trace.
ThirdReads(trace) ==
  {t \in 1..Len(trace) :
     trace[t].name.k = "A" /\ trace[t].name.j = 3
       /\ trace[t].kind # "hardcoded"}

ValueChanged ==
  \E s \in SetNames : \E p \in 1..Len(psets[s]) :
    p <= Len(psets'[s]) /\ psets'[s][p] # psets[s][p]

Entry(i, k, n) == (i - 1) * n + k

\* The sum of a group's amplitudes as compute_multiexponentials adds them.
AmplitudeSum(g) == FAdd(FAdd(FAdd(Zero, g.As[1]), g.As[2]), g.As[3])

\* C6: with data = 0 and sigma = 1, a group whose amplitudes sum to 1 has
\* the residual entry 1 at every sample x = 0.
C6_OneAtZero ==
  \A s \in Fitted :
    (Called(s) /\ ~res[s].raised /\ res[s].data = Zero
       /\ res[s].sigma = One) =>
      \A i \in 1..3 : \A k \in 1..Len(res[s].x) :
        (AmplitudeSum(res[s].groups[i]) = One /\ res[s].x[k] = Zero) =>
          /\ Entry(i, k, Len(res[s].x)) <= Len(res[s].ret)
          /\ res[s].ret[Entry(i, k, Len(res[s].x))] = One

\* e^-1 * 2^15.
InvE == ExpPow2[15]

\* The terms A * exp(-x / T) the calls computed: amplitude, decay constant,
\* sample and value.
Terms ==
  UNION {UNION {UNION {
    {[A |-> res[s].groups[i].terms[j].A, T |-> res[s].groups[i].terms[j].T,
      x |-> res[s].x[k], v |-> res[s].groups[i].terms[j].v[k]]
       : k \in 1..Len(res[s].x)}
    : j \in 1..Len(res[s].groups[i].terms)}
    : i \in 1..Len(res[s].groups)}
    : s \in {t \in Fitted : Called(t)}}

\* C7: compute_exponential returns A at x = 0, and at x = T it returns A / e
\* to the accuracy of the arithmetic: a relative error of at most
\* 2^(2 - Precision), or one quantum.
C7_SingleTerm ==
  \A t \in Terms :
    /\ t.x = Zero => t.v = t.A
    /\ (t.x = t.T /\ t.T > 0) =>
         Abs(t.v * ExpScale - t.A * InvE) * Pow2(Precision)
           <= 4 * Abs(t.A) * InvE + 2 * ExpScale * Pow2(Precision)

\* A term with a non-zero amplitude was computed at x = 0, and one at x = T.
C7_Witness ==
  /\ \E t \in Terms : t.x = Zero /\ t.A # Zero
  /\ \E t \in Terms : t.x = t.T /\ t.A # Zero /\ t.v # Zero /\ t.v # t.A

\* The names the expression of parameter p of a set references.
RefsAt(ps, p) == Refs(ps[p].expr)

\* The names reachable from the names S by following references, in at
\* most n steps.
RECURSIVE Reachable(_, _, _)
Reachable(ps, S, n) ==
  IF n = 0 \/ S = {} THEN S
  ELSE S \cup Reachable(ps,
                UNION {Refs(Param(ps, m).expr) : m \in S \cap Names(ps)},
                n - 1)

\* C8: in every parameter set, every name an expression references is a
\* parameter of the set added before the expression parameter, and no
\* parameter references itself through a chain of references.
C8_Acyclic ==
  \A s \in SetNames : \A p \in 1..Len(psets[s]) :
    /\ RefsAt(psets[s], p) \subseteq {psets[s][q].name : q \in 1..(p - 1)}
    /\ psets[s][p].name
         \notin Reachable(psets[s], RefsAt(psets[s], p), Len(psets[s]))

\* All six sets are built, two of them with an expression that references
\* other parameters or none.
C8_Witness ==
  /\ \A s \in SetNames : psets[s] # << >>
  /\ \E p \in 1..Len(psets["params_1"]) : RefsAt(psets["params_1"], p) # {}
  /\ \E p \in 1..Len(psets["both_params"]) :
       psets["both_params"][p].expr.op = "num"

\* (sum over j of A_i_j * exp(-x_k / T_i_j) - data) / sigma, from the values
\* of the set.
Expected(ps, i, xk, dd, ss) ==
  LET term(j) == FMul(getval(ps, Name("A", i, j)),
                      Exp(FDiv(FMul(MinusOne, xk),
                               getval(ps, Name("T", i, j)))))
  IN  FDiv(FSub(FAdd(FAdd(FAdd(Zero, term(1)), term(2)), term(3)), dd), ss)

\* C9: entry (i - 1) * N + k of the vector general_multiexponential returns
\* is (sum over j of A_i_j * exp(-x_k / T_i_j) - data) / sigma, for every
\* group i and sample k.
C9_EveryGroup ==
  \A s \in {"params_1", "params_2"} :
    (Called(s) /\ ~res[s].raised) =>
      \A i \in 1..3 : \A k \in 1..Len(res[s].x) :
        /\ Entry(i, k, Len(res[s].x)) <= Len(res[s].ret)
        /\ res[s].ret[Entry(i, k, Len(res[s].x))]
             = Expected(psets[s], i, res[s].x[k], res[s].data, res[s].sigma)

IsRead(e) == e.kind # "hardcoded"

\* The names of the reads rd are the names ns, in that order.
ReadsAre(rd, ns) ==
  Len(rd) = Len(ns) /\ \A t \in 1..Len(ns) : rd[t].name = ns[t]

\* The reads of one call, group after group.
HardcodedReads ==
  << Name("A", 1, 1), Name("T", 1, 1), Name("A", 1, 2), Name("T", 1, 2),
     Name("T", 1, 3),
     Name("A", 2, 1), Name("T", 2, 1), Name("A", 2, 2), Name("T", 2, 2),
     Name("T", 2, 3),
     Name("A", 3, 1), Name("T", 3, 1), Name("A", 3, 2), Name("T", 3, 2),
     Name("T", 3, 3) >>

GeneralReads ==
  << Name("A", 1, 1), Name("T", 1, 1), Name("A", 1, 2), Name("T", 1, 2),
     Name("A", 1, 3), Name("T", 1, 3),
     Name("A", 2, 1), Name("T", 2, 1), Name("A", 2, 2), Name("T", 2, 2),
     Name("A", 2, 3), Name("T", 2, 3),
     Name("A", 3, 1), Name("T", 3, 1), Name("A", 3, 2), Name("T", 3, 2),
     Name("A", 3, 3), Name("T", 3, 3) >>

\* C10: a call of hardcoded_multiexponential reads, per group, A_i_1, A_i_2
\* and the three decay constants and nothing else, A_i_1 and A_i_2 before
\* it computes the third amplitude; it evaluates no expression and every
\* name it reads is in params_3.  A call of general_multiexponential reads
\* six names per group, all of them in params_1 and in params_2.
C10_Reads ==
  /\ Called("params_3") =>
       LET tr == res["params_3"].trace
       IN  /\ ~res["params_3"].raised
           /\ \A rd \in {SelectSeq(tr, IsRead)} : ReadsAre(rd, HardcodedReads)
           /\ \A t \in 1..Len(tr) :
                /\ tr[t].kind \in {"plain", "hardcoded"}
                /\ IsRead(tr[t]) => tr[t].name \in Names(params_3)
                /\ tr[t].kind = "hardcoded" =>
                     \A j \in 1..2 : \E u \in 1..(t - 1) :
                       /\ IsRead(tr[u])
                       /\ tr[u].name = Name("A", tr[t].name.i, j)
  /\ \A s \in {"params_1", "params_2"} :
       Called(s) =>
         /\ ~res[s].raised
         /\ ReadsAre(res[s].trace, GeneralReads)
         /\ Len(res[s].trace) = 18
         /\ \A t \in 1..18 :
              res[s].trace[t].name \in Names(params_1) \cap Names(params_2)

\* Each of the three minimizers has called its residual function.
C10_Witness == \A s \in Fitted : Called(s) /\ Len(res[s].trace) > 0

====
